---- MODULE Spec2Model ----
(***************************************************************************)
(* Control core of the Romi line follower: quadrature encoders, the two    *)
(* drive state machines (motor.mot_gen), the line classifier               *)
(* (sensor.sen_gen), the limit-switch monitor (switch.sw_gen), the two     *)
(* maneuver queues and the priority scheduler that steps the tasks.        *)
(*                                                                         *)
(* One task step (one pass of a generator's `while True` body up to its    *)
(* yield) is one action.  The variable `ev` records what the last step     *)
(* did (the set_duty calls, the put calls, the diagnostics printed, the    *)
(* inputs read); it is overwritten by every step.                          *)
(*                                                                         *)
(* The ClosedLoop controller and the BNO055 driver, which main.py does not *)
(* construct, have specifications of their own (SpecPID, SpecIMU), as have *)
(* the encoder alone (SpecEnc) and the drive tasks fed with any code       *)
(* (SpecDrive).  SpecTurn is the system under a fair scheduler with the    *)
(* wheel moving back while the reverse duty is commanded, SpecSen the      *)
(* classifier alone over every combination of readings, SpecButton the     *)
(* system with the button interrupt.                                       *)
(***************************************************************************)
EXTENDS Integers, Sequences, FiniteSets, TLC

(* ------------------------------ bounds --------------------------------- *)
\* number of button presses followed
MaxPress == 2
\* capacity of each maneuver queue in the model (1000 in main.py:33-34)
QSize == 1
\* auto-reload value of the system specification (62354 in main.py:512)
MaxAR == 2
\* largest auto-reload value of the encoder specification
MaxEncAR == 8
\* tick threshold of the reversing phase in the model (1440 in main.py:256)
TurnTicks == 1
\* bound on the accumulated encoder position
MaxPos == 1

(* ------------------------- program constants --------------------------- *)
m_per == 5
s_per == 15
l_per == 15
v_ref == 15
adjust1 == 10
adjust2 == 40
adjust3 == 85
adjust4 == 25
adjust5 == 30
offset == 3
black == 2000
white == 2000
CountLimit == 1000

Wheel == {"R", "L"}
Tasks == {"swi", "R", "L", "Sen"}
Sensors == {"S1", "S3", "S5", "S7", "S9", "S11"}
\* ADC readings: below, at and above the threshold
SensorVals == {black - 1, black, black + 1}
ReadSet == [Sensors -> SensorVals]

\* the reading with the channels of hi above the threshold, the others below
Line(hi) == [s \in Sensors |-> IF s \in hi THEN black + 1 ELSE black - 1]

\* the readings offered to the classifier by the system specification: the
\* line under no channel, under the two middle channels, under S3 and S5,
\* under the two outermost channels of either side
Lines == { Line(h) : h \in { {}, {"S5", "S7"}, {"S3", "S5"},
                             {"S1", "S3"}, {"S9", "S11"} } }

VARIABLES
    AR,         \* auto-reload value given to both encoders and their timers
    turning,    \* the wheels whose counter changes between samples
    tim,        \* tim[w]: counter of wheel w's encoder timer at its last sample
    enc,        \* enc[w]: Encoder object (count, old_count, delta, position)
    mot,        \* mot[w]: L6206 driver (duty, IN2, PWM, EN)
    motor,      \* motor[w]: drive task object (state, back, turn, forw, count)
    turn_q,     \* turn_q[w]: maneuver queue of wheel w (turn_q_r, turn_q_l)
    Sensor,     \* line classifier object (state)
    Switches,   \* switch monitor object (state)
    late,       \* late[t]: ms by which task t is past its next run time
    rr,         \* round-robin index of the priority-2 group of the scheduler
    swPut,      \* swPut[w]: number of put calls the monitor made on turn_q[w]
    halted,     \* an exception has left the `while True` loop of main.py
    stat,       \* the module-level name stat of main.py
    gh,         \* history of the wheels: true travel and sum of the deltas
    imu,        \* BNO055 object, its sensor's registers and its file
    pid,        \* ClosedLoop object
    ev          \* record of the last step

vars == <<AR, turning, tim, enc, mot, motor, turn_q, Sensor, Switches, late,
          rr, swPut, halted, stat, gh, imu, pid, ev>>

\* the objects main.py never constructs
compVars == <<imu, pid>>

(* ------------------------------ helpers -------------------------------- *)
abs(x) == IF x < 0 THEN -x ELSE x

NoReads == [s \in Sensors |-> 0]

NoEv == [task |-> "none", pstate |-> 0, cmds |-> <<>>, puts |-> <<>>,
         diag |-> <<>>, qfull |-> [w \in Wheel |-> FALSE],
         reads |-> NoReads, sw |-> <<0, 0>>, raw |-> 0, disp |-> 0, arg |-> <<>>,
         bus |-> <<>>, fault |-> 0, res |-> "ok", ret |-> <<>>]

\* main.py constructs neither a BNO055 nor a ClosedLoop
NoIMU == "absent"

NoPID == "absent"

\* gh.travel[w]: true displacement of wheel w since the last zero() of the
\* encoder specification; gh.dsum[w]: sum of the deltas its update() calls
\* produced since then; gh.moved[w]: true displacement of wheel w since its
\* scripted turn began (0 outside the reversing phase); gh.origin[w]: "zero"
\* when zero() has been called and every sample since saw a displacement of
\* less than half a turn of the counter, "alias" when some sample since the
\* last zero() or the construction saw more, "new" otherwise; gh.last[w]:
\* the state in which drive task w made its last set_duty call; gh.acc: sum
\* of Ki*error*period over the update() calls of the ClosedLoop object
NoGh == [travel |-> [w \in Wheel |-> 0], dsum |-> [w \in Wheel |-> 0],
         moved |-> [w \in Wheel |-> 0], origin |-> [w \in Wheel |-> "new"],
         last |-> [w \in Wheel |-> 0], acc |-> 0, presses |-> 0]

(* ------------------------- task_share.Queue ---------------------------- *)
\* any(): the queue holds at least one item
any(q) == Len(q) > 0

\* full(): the queue is at capacity
full(q) == Len(q) >= QSize

\* put(): appends, or signals "full" without blocking and leaves the queue
put(q, v) == IF full(q) THEN q ELSE Append(q, v)

(* ------------------------------ Encoder -------------------------------- *)
AR1 == AR + 1

\* variant: the comparison with limit is not strict
OverLimit_incl(d) == 2 * d >= AR1

\* delta > limit, with limit = (auto_reload + 1)/2 a true division
OverLimit(d) == 2 * d > AR1

\* delta < neg_limit, with neg_limit = -1*(auto_reload + 1)/2
UnderNegLimit(d) == 2 * d < -AR1

Encoder_init == [count |-> 0, old_count |-> 0, delta |-> 0, position |-> 0]

\* variant: only the overflow is corrected
unwrap_oneway(d) == IF OverLimit(d) THEN d - AR1 ELSE d

\* variant: only the underflow is corrected
unwrap_underonly(d) == IF UnderNegLimit(d) THEN d + AR1 ELSE d

\* the correction of Encoder.update(): delta -= AR1 or delta += AR1
unwrap(d) == IF OverLimit(d) THEN d - AR1
             ELSE IF UnderNegLimit(d) THEN d + AR1
             ELSE d

\* variant: the position accumulates the uncorrected difference
update_rawsum(e, c) ==
    LET d == unwrap(c - e.old_count)
    IN  [count |-> c, old_count |-> c, delta |-> d,
         position |-> e.position + (c - e.old_count)]

\* Encoder.update() when tim.counter() returns c
update(e, c) ==
    LET d == unwrap(c - e.old_count)
    IN  [count |-> c, old_count |-> c, delta |-> d, position |-> e.position + d]

get_position(e) == e.position

get_delta(e) == e.delta

zero(e) == [count |-> 0, old_count |-> 0, delta |-> 0, position |-> 0]

(* ------------------------------- L6206 --------------------------------- *)
L6206_init == [duty |-> 0, IN2 |-> 0, PWM |-> 0, EN |-> 1]

set_duty(m, duty) ==
    [m EXCEPT !.duty = duty,
              !.IN2 = IF duty >= 0 THEN 0 ELSE 1,
              !.PWM = abs(duty)]

\* enable(): EN.high()
enable(m) == [m EXCEPT !.EN = 1]

\* disable(): EN.low()
disable(m) == [m EXCEPT !.EN = 0]

(* ------------------------- motor (drive task) -------------------------- *)
motor_init == [state |-> 0, back |-> 0, turn |-> 0, forw |-> 0, count |-> 0]

\* variant: state 1 uses the signs of state 2
StateDuty_flip(w, s) ==
    CASE s = 1  -> IF w = "R" THEN v_ref - adjust1 ELSE v_ref + adjust1 + 0
      [] s = 2  -> IF w = "R" THEN v_ref - adjust1 ELSE v_ref + adjust1 + 0
      [] s = 3  -> v_ref
      [] s = 4  -> IF w = "R" THEN v_ref + adjust2 ELSE v_ref - adjust2 + 0
      [] s = 5  -> IF w = "R" THEN v_ref + adjust3 ELSE v_ref - adjust3 + 0
      [] s = 6  -> IF w = "R" THEN v_ref + adjust4 ELSE v_ref - adjust4 + 0
      [] s = 7  -> IF w = "R" THEN v_ref + adjust4 ELSE v_ref - adjust4 + 0
      [] s = 8  -> IF w = "R" THEN v_ref - adjust2 + offset ELSE v_ref + adjust2 + 0
      [] s = 9  -> IF w = "R" THEN v_ref - adjust3 + offset ELSE v_ref + adjust3 + 0
      [] s = 10 -> IF w = "R" THEN v_ref - adjust4 + offset ELSE v_ref + adjust4 + 0
      [] s = 11 -> IF w = "R" THEN v_ref - adjust5 + offset ELSE v_ref + adjust5 + 0
      [] s = 12 -> 0

\* variant: in state 4 both wheels add adjust2
StateDuty_same(w, s) ==
    CASE s = 1  -> IF w = "R" THEN v_ref + adjust1 ELSE v_ref - adjust1 + 0
      [] s = 2  -> IF w = "R" THEN v_ref - adjust1 ELSE v_ref + adjust1 + 0
      [] s = 3  -> v_ref
      [] s = 4  -> IF w = "R" THEN v_ref + adjust2 ELSE v_ref + adjust2 + 0
      [] s = 5  -> IF w = "R" THEN v_ref + adjust3 ELSE v_ref - adjust3 + 0
      [] s = 6  -> IF w = "R" THEN v_ref + adjust4 ELSE v_ref - adjust4 + 0
      [] s = 7  -> IF w = "R" THEN v_ref + adjust4 ELSE v_ref - adjust4 + 0
      [] s = 8  -> IF w = "R" THEN v_ref - adjust2 + offset ELSE v_ref + adjust2 + 0
      [] s = 9  -> IF w = "R" THEN v_ref - adjust3 + offset ELSE v_ref + adjust3 + 0
      [] s = 10 -> IF w = "R" THEN v_ref - adjust4 + offset ELSE v_ref + adjust4 + 0
      [] s = 11 -> IF w = "R" THEN v_ref - adjust5 + offset ELSE v_ref + adjust5 + 0
      [] s = 12 -> 0

\* variant: the right wheel adds the offset in state 5 as well
StateDuty_trim(w, s) ==
    CASE s = 1  -> IF w = "R" THEN v_ref + adjust1 ELSE v_ref - adjust1 + 0
      [] s = 2  -> IF w = "R" THEN v_ref - adjust1 ELSE v_ref + adjust1 + 0
      [] s = 3  -> v_ref
      [] s = 4  -> IF w = "R" THEN v_ref + adjust2 ELSE v_ref - adjust2 + 0
      [] s = 5  -> IF w = "R" THEN v_ref + adjust3 + offset ELSE v_ref - adjust3 + 0
      [] s = 6  -> IF w = "R" THEN v_ref + adjust4 ELSE v_ref - adjust4 + 0
      [] s = 7  -> IF w = "R" THEN v_ref + adjust4 ELSE v_ref - adjust4 + 0
      [] s = 8  -> IF w = "R" THEN v_ref - adjust2 + offset ELSE v_ref + adjust2 + 0
      [] s = 9  -> IF w = "R" THEN v_ref - adjust3 + offset ELSE v_ref + adjust3 + 0
      [] s = 10 -> IF w = "R" THEN v_ref - adjust4 + offset ELSE v_ref + adjust4 + 0
      [] s = 11 -> IF w = "R" THEN v_ref - adjust5 + offset ELSE v_ref + adjust5 + 0
      [] s = 12 -> 0

\* duty commanded by the single-shot states 1..12 of wheel w
StateDuty(w, s) ==
    CASE s = 1  -> IF w = "R" THEN v_ref + adjust1 ELSE v_ref - adjust1 + 0
      [] s = 2  -> IF w = "R" THEN v_ref - adjust1 ELSE v_ref + adjust1 + 0
      [] s = 3  -> v_ref
      [] s = 4  -> IF w = "R" THEN v_ref + adjust2 ELSE v_ref - adjust2 + 0
      [] s = 5  -> IF w = "R" THEN v_ref + adjust3 ELSE v_ref - adjust3 + 0
      [] s = 6  -> IF w = "R" THEN v_ref + adjust4 ELSE v_ref - adjust4 + 0
      [] s = 7  -> IF w = "R" THEN v_ref + adjust4 ELSE v_ref - adjust4 + 0
      [] s = 8  -> IF w = "R" THEN v_ref - adjust2 + offset ELSE v_ref + adjust2 + 0
      [] s = 9  -> IF w = "R" THEN v_ref - adjust3 + offset ELSE v_ref + adjust3 + 0
      [] s = 10 -> IF w = "R" THEN v_ref - adjust4 + offset ELSE v_ref + adjust4 + 0
      [] s = 11 -> IF w = "R" THEN v_ref - adjust5 + offset ELSE v_ref + adjust5 + 0
      [] s = 12 -> 0

\* result of one cycle of a drive task: the new task object, driver, encoder
\* and queue, the duties passed to set_duty, the lines printed, and whether
\* the task raised
Cycle(m, d, e, q, cmds, diag, raised) ==
    [m |-> m, d |-> d, e |-> e, q |-> q, cmds |-> cmds, diag |-> diag,
     raised |-> raised]

\* state 0: take one code from the queue, or command the straight duty
Idle(w, m, d, e, q) ==
    IF any(q)
    THEN Cycle([m EXCEPT !.state = Head(q)], d, e, Tail(q), <<>>, <<>>, FALSE)
    ELSE Cycle(m, set_duty(d, v_ref), e, q, <<v_ref>>, <<>>, FALSE)

\* states 1..12: one duty command, back to state 0
SingleShot(w, m, d, e, q) ==
    Cycle([m EXCEPT !.state = 0], set_duty(d, StateDuty(w, m.state)), e, q,
          <<StateDuty(w, m.state)>>, <<>>, FALSE)

\* variant: the last branch of state 13 keeps the state
TurnSequence_stay(w, m, d, e, q, c) ==
    IF m.back = 0 /\ m.turn = 0 /\ m.forw = 0
    THEN Cycle([m EXCEPT !.back = 1], d, update(zero(e), c), q,
               <<>>, <<"FIRST">>, FALSE)
    ELSE IF m.back = 1
    THEN LET e2 == update(zero(e), c)
         IN  IF abs(get_position(e2)) < TurnTicks
             THEN Cycle(m, set_duty(d, -3), e2, q, <<-3>>, <<"SECOND">>, FALSE)
             ELSE Cycle([m EXCEPT !.turn = 1, !.back = 0,
                                  !.count = IF m.count < CountLimit
                                            THEN m.count + 1 ELSE m.count,
                                  !.state = IF m.count < CountLimit
                                            THEN 13 ELSE 0],
                        set_duty(d, 0), e2, q, <<0>>, <<"SECOND">>, FALSE)
    ELSE Cycle(m, d, e, q, <<>>, <<"DONE">>, FALSE)

\* state 13: the scripted turn; c is the value tim.counter() returns
TurnSequence(w, m, d, e, q, c) ==
    IF m.back = 0 /\ m.turn = 0 /\ m.forw = 0
    THEN Cycle([m EXCEPT !.back = 1], d, update(zero(e), c), q,
               <<>>, <<"FIRST">>, FALSE)
    ELSE IF m.back = 1
    THEN LET e2 == update(zero(e), c)
         IN  IF abs(get_position(e2)) < TurnTicks
             THEN Cycle(m, set_duty(d, -3), e2, q, <<-3>>, <<"SECOND">>, FALSE)
             ELSE Cycle([m EXCEPT !.turn = 1, !.back = 0,
                                  !.count = IF m.count < CountLimit
                                            THEN m.count + 1 ELSE m.count,
                                  !.state = IF m.count < CountLimit
                                            THEN 13 ELSE 0],
                        set_duty(d, 0), e2, q, <<0>>, <<"SECOND">>, FALSE)
    ELSE Cycle([m EXCEPT !.state = 0], d, e, q, <<>>, <<"DONE">>, FALSE)

\* variant: the encoder is sampled in the states 0 and 13 only
mot_gen_cycle_idle13(w, c) ==
    LET m  == motor[w]
        e1 == update(enc[w], c)
        d  == mot[w]
        q  == turn_q[w]
    IN  IF m.state = 0 THEN Idle(w, m, d, e1, q)
        ELSE IF m.state \in 1..12 THEN SingleShot(w, m, d, enc[w], q)
        ELSE IF m.state = 13 THEN TurnSequence(w, m, d, e1, q, c)
        ELSE Cycle(m, d, e1, q, <<>>, <<"Invalid State">>, TRUE)

\* one pass of the loop of motor.mot_gen for wheel w, in which tim.counter()
\* returns c.  The velocity v_meas = (d/t)*(1000/1440) and the time stamps
\* start and end are computed by every cycle and read by none; they are left
\* out, the time t between two cycles of a task being taken as non-zero.
mot_gen_cycle(w, c) ==
    LET m  == motor[w]
        e1 == update(enc[w], c)
        d  == mot[w]
        q  == turn_q[w]
    IN  IF m.state = 0 THEN Idle(w, m, d, e1, q)
        ELSE IF m.state \in 1..12 THEN SingleShot(w, m, d, e1, q)
        ELSE IF m.state = 13 THEN TurnSequence(w, m, d, e1, q, c)
        ELSE Cycle(m, d, e1, q, <<>>, <<"Invalid State">>, TRUE)

\* the true displacement of wheel w between its last sample and the sample
\* that reads c: less than half a turn of the counter
Displacement(w, c) == unwrap(c - tim[w])

\* the true displacement of wheel w since its scripted turn began, after the
\* cycle in which tim.counter() returns c: the turn begins with the cycle
\* that prints FIRST and the reversing phase lasts while back = 1
Moved(w, c) ==
    IF motor[w].state = 13 /\ motor[w].back = 1
    THEN gh.moved[w] + Displacement(w, c)
    ELSE 0

\* a ValueError raised by the generator is caught neither by the scheduler
\* nor by the loop that calls it
mot_gen(w, c) ==
    LET r == mot_gen_cycle(w, c)
    IN  /\ tim' = [tim EXCEPT ![w] = c]
        /\ motor' = [motor EXCEPT ![w] = r.m]
        /\ mot' = [mot EXCEPT ![w] = r.d]
        /\ enc' = [enc EXCEPT ![w] = r.e]
        /\ turn_q' = [turn_q EXCEPT ![w] = r.q]
        /\ ev' = [NoEv EXCEPT !.task = w, !.pstate = motor[w].state,
                              !.cmds = r.cmds, !.diag = r.diag]
        /\ halted' = r.raised
        /\ gh' = [gh EXCEPT !.moved[w] = Moved(w, c),
                            !.last[w] = IF r.cmds = <<>> THEN @
                                        ELSE motor[w].state]
        /\ UNCHANGED <<compVars, stat, AR, turning, Sensor, Switches, swPut>>

(* ----------------------- sensor (line classifier) ---------------------- *)
sensor_init == [state |-> 0]

\* variant of Rule: the right queue gets the straight code whatever the branch
Rule_mixed(l, r, test) == [l |-> l, r |-> 3, test |-> test]

\* a branch of the table: the code it puts on the left queue, the code it
\* puts on the right queue, and the queue whose full() it tests before the
\* puts ("none" where the branch has no test)
Rule(l, r, test) == [l |-> l, r |-> r, test |-> test]

\* variant: the comparison with black is inverted
above_inverted(r, s) == r[s] < black

\* S.read() > self.black and S.read() < self.white for channel s of reading r
above(r, s) == r[s] > black

below(r, s) == r[s] < white

\* the ordered first-match decision table of sensor.sen_gen, state 0
decide(r) ==
    IF below(r, "S9") /\ above(r, "S7") /\ above(r, "S5") /\ below(r, "S3")
        THEN Rule(3, 3, "none")
    ELSE IF above(r, "S3") /\ above(r, "S5")
        THEN Rule(1, 1, "R")
    ELSE IF above(r, "S1") /\ above(r, "S3")
        THEN Rule(4, 4, "R")
    ELSE IF above(r, "S1") /\ below(r, "S3") /\ below(r, "S5")
            /\ below(r, "S7") /\ below(r, "S9") /\ below(r, "S11")
        THEN Rule(5, 5, "R")
    ELSE IF above(r, "S5") /\ above(r, "S7") /\ above(r, "S9")
        THEN Rule(6, 6, "R")
    ELSE IF above(r, "S5") /\ above(r, "S7") /\ above(r, "S9")
            /\ above(r, "S11")
        THEN Rule(7, 7, "R")
    ELSE IF above(r, "S7") /\ above(r, "S9")
        THEN Rule(2, 2, "L")
    ELSE IF above(r, "S9") /\ above(r, "S11")
        THEN Rule(8, 8, "L")
    ELSE IF above(r, "S11") /\ below(r, "S3") /\ below(r, "S5")
            /\ below(r, "S7") /\ below(r, "S9") /\ below(r, "S1")
        THEN Rule(9, 9, "L")
    ELSE IF above(r, "S3") /\ above(r, "S5") /\ above(r, "S7")
        THEN Rule(10, 10, "L")
    ELSE IF above(r, "S1") /\ above(r, "S3") /\ above(r, "S5")
            /\ above(r, "S7")
        THEN Rule(11, 11, "L")
    ELSE Rule(3, 3, "none")

\* the line printed by a branch's full() test
FullDiag(test) ==
    IF test = "R" /\ full(turn_q["R"]) THEN <<"RIGHT QUEUE FULL">>
    ELSE IF test = "L" /\ full(turn_q["L"]) THEN <<"LEFT QUEUE FULL">>
    ELSE <<>>

\* the put calls of a producer cycle: left queue first, then right queue;
\* each entry tells the queue, the value and whether the queue was full
PutCalls(l, r) ==
    << [q |-> "L", v |-> l, full |-> full(turn_q["L"])],
       [q |-> "R", v |-> r, full |-> full(turn_q["R"])] >>

\* one pass of the loop of sensor.sen_gen with the readings r
sen_gen(r) ==
    IF Sensor.state = 0
    THEN LET d == decide(r)
         IN  /\ turn_q' = [w \in Wheel |-> put(turn_q[w], IF w = "L" THEN d.l ELSE d.r)]
             /\ Sensor' = [Sensor EXCEPT !.state = 0]
             /\ ev' = [NoEv EXCEPT !.task = "Sen", !.pstate = Sensor.state,
                                   !.puts = PutCalls(d.l, d.r),
                                   !.diag = FullDiag(d.test),
                                   !.qfull = [w \in Wheel |-> full(turn_q[w])],
                                   !.reads = r]
             /\ UNCHANGED <<compVars, stat, AR, turning, tim, enc, mot, motor, Switches, swPut>>
             /\ UNCHANGED <<halted, gh>>
    ELSE /\ ev' = [NoEv EXCEPT !.task = "Sen", !.pstate = Sensor.state,
                               !.diag = <<"Invalid State">>]
         /\ halted' = TRUE
         /\ UNCHANGED <<compVars, stat, AR, turning, tim, enc, mot, motor, turn_q, Sensor, Switches, swPut, gh>>

(* ----------------------- switch (limit switches) ----------------------- *)
switch_init == [state |-> 0]

\* variant: the latched state falls back to state 1
sw_next_rearm(s, l, r) ==
    IF s = 0 THEN (IF l = 1 \/ r = 1 THEN 1 ELSE 0)
    ELSE IF s = 1 THEN 2
    ELSE 1

\* the state the monitor yields after a cycle begun in state s with the
\* switch values l and r
sw_next(s, l, r) ==
    IF s = 0 THEN (IF l = 1 \/ r = 1 THEN 1 ELSE 0)
    ELSE IF s = 1 THEN 2
    ELSE 2

\* variant: the monitor puts the code 14
sw_gen_code14(l, r) ==
    /\ Switches.state \in 0..2
    /\ Switches' = [Switches EXCEPT !.state = sw_next(Switches.state, l, r)]
    /\ IF Switches.state = 1
       THEN /\ turn_q' = [w \in Wheel |-> put(turn_q[w], 14)]
            /\ swPut' = [w \in Wheel |-> swPut[w] + 1]
            /\ ev' = [NoEv EXCEPT !.task = "swi", !.pstate = Switches.state,
                                  !.puts = PutCalls(14, 14),
                                  !.diag = <<"triggered">>,
                                  !.qfull = [w \in Wheel |-> full(turn_q[w])]]
       ELSE /\ ev' = [NoEv EXCEPT !.task = "swi", !.pstate = Switches.state,
                                  !.sw = IF Switches.state = 0 THEN <<l, r>>
                                         ELSE <<0, 0>>]
            /\ UNCHANGED <<turn_q, swPut>>
    /\ UNCHANGED <<compVars, stat, AR, turning, tim, enc, mot, motor, Sensor, halted, gh>>

\* one pass of the loop of switch.sw_gen with the switch values l and r
sw_gen(l, r) ==
    /\ Switches.state \in 0..2
    /\ Switches' = [Switches EXCEPT !.state = sw_next(Switches.state, l, r)]
    /\ IF Switches.state = 1
       THEN /\ turn_q' = [w \in Wheel |-> put(turn_q[w], 13)]
            /\ swPut' = [w \in Wheel |-> swPut[w] + 1]
            /\ ev' = [NoEv EXCEPT !.task = "swi", !.pstate = Switches.state,
                                  !.puts = PutCalls(13, 13),
                                  !.diag = <<"triggered">>,
                                  !.qfull = [w \in Wheel |-> full(turn_q[w])]]
       ELSE /\ ev' = [NoEv EXCEPT !.task = "swi", !.pstate = Switches.state,
                                  !.sw = IF Switches.state = 0 THEN <<l, r>>
                                         ELSE <<0, 0>>]
            /\ UNCHANGED <<turn_q, swPut>>
    /\ UNCHANGED <<compVars, stat, AR, turning, tim, enc, mot, motor, Sensor, halted, gh>>

(* --------------------- cotask priority scheduler ----------------------- *)
\* the priority and period given to each cotask.Task
priority == [t \in Tasks |-> CASE t = "R" -> 2 [] t = "L" -> 2
                                [] t = "Sen" -> 1 [] t = "swi" -> 3]

period == [t \in Tasks |-> CASE t = "R" -> m_per [] t = "L" -> m_per
                              [] t = "Sen" -> s_per [] t = "swi" -> l_per]

\* Task.ready(): the task's next run time has been reached
ready(t) == late[t] >= 0

\* the priority-2 group is the list [index, motorR, motorL]: a pass advances
\* the index, wrapping to 1, and offers the task at the index
rr_next(i) == IF i + 1 >= 3 THEN 1 ELSE i + 1

rr_task(i) == IF i = 1 THEN "R" ELSE "L"

\* the task one call of pri_sched runs: the first ready task met when the
\* groups are visited from the highest priority number down, each group in
\* round-robin order; "none" when no task is ready
pri_sched_pick ==
    LET top == {t \in Tasks : ready(t) /\ \A u \in Tasks : ready(u) => priority[u] <= priority[t]}
    IN  IF top = {} THEN "none"
        ELSE IF top \subseteq Wheel
             THEN (IF rr_task(rr_next(rr)) \in top THEN rr_task(rr_next(rr))
                   ELSE rr_task(rr_next(rr_next(rr))))
        ELSE CHOOSE t \in top : TRUE

\* the index of the priority-2 group after a pass that runs task t
rr_after(t) ==
    IF priority[t] > 2 THEN rr
    ELSE IF t = rr_task(rr_next(rr)) THEN rr_next(rr)
    ELSE rr_next(rr_next(rr))

\* bookkeeping of Task.schedule(): the next run time moves one period on
Ran(t) ==
    /\ ~halted
    /\ pri_sched_pick = t
    /\ late' = [late EXCEPT ![t] = late[t] - period[t]]
    /\ rr' = rr_after(t)

\* the counter values the timer of wheel w can show at the next sample: for
\* a turning wheel any value of 0..AR, as long as the accumulated position
\* stays within the bound; for a wheel at rest the value of the last sample
Counter(w) ==
    IF w \in turning
    THEN {c \in 0..AR : abs(update(enc[w], c).position) <= MaxPos}
    ELSE {tim[w]}

RunMotor(w) == Ran(w) /\ \E c \in Counter(w) : mot_gen(w, c)

RunSensor == Ran("Sen") /\ \E r \in Lines : sen_gen(r)

RunSwitch == Ran("swi") /\ \E l \in {0, 1}, r \in {0, 1} : sw_gen(l, r)

(* ----------------------------- environment ----------------------------- *)
\* no task is ready: time passes until the next run time of some task (a
\* task step is taken to end before the next run time of any task)
Tick ==
    /\ ~halted
    /\ \A t \in Tasks : ~ready(t)
    /\ \E k \in 1..s_per :
          /\ \E t \in Tasks : late[t] + k = 0
          /\ \A t \in Tasks : late[t] + k <= 0
          /\ late' = [t \in Tasks |-> late[t] + k]
    /\ ev' = NoEv
    /\ UNCHANGED <<compVars, stat, AR, turning, tim, enc, mot, motor, turn_q, Sensor, Switches, rr, swPut>>
    /\ UNCHANGED <<halted, gh>>

(* --------------------------- specification ----------------------------- *)
\* The state after the module body of main.py has run, before the first
\* call of pri_sched.  In a behaviour one wheel turns freely and the other
\* stays at rest; which one is chosen here.
Init ==
    /\ AR = MaxAR
    /\ turning \in {{w} : w \in Wheel}
    /\ tim = [w \in Wheel |-> 0]
    /\ enc = [w \in Wheel |-> Encoder_init]
    /\ mot = [w \in Wheel |-> set_duty(L6206_init, 0)]
    /\ motor = [w \in Wheel |-> motor_init]
    /\ turn_q = [w \in Wheel |-> <<>>]
    /\ Sensor = sensor_init
    /\ Switches = switch_init
    /\ late = [t \in Tasks |-> 0]
    /\ rr = 0
    /\ swPut = [w \in Wheel |-> 0]
    /\ halted = FALSE
    /\ stat = 0
    /\ gh = NoGh
    /\ imu = NoIMU
    /\ pid = NoPID
    /\ ev = NoEv

Next ==
    \/ RunSwitch
    \/ \E w \in Wheel : RunMotor(w)
    \/ RunSensor
    \/ Tick

Spec == Init /\ [][Next]_vars

TypeOK ==
    /\ \A w \in Wheel : tim[w] \in 0..AR /\ Len(turn_q[w]) <= QSize
    /\ \A w \in Wheel : motor[w].state \in 0..13

(* --------------------- drive-task specification ------------------------ *)
\* largest code offered to the drive tasks; the queues hold 16-bit values
\* and the drive tasks know the codes 1..13
MaxCode == 14

\* The drive tasks fed by any producer: both queues hold the same code when
\* the scheduler starts, and both wheels are at rest.
InitDrive ==
    /\ AR = MaxAR
    /\ turning = {}
    /\ tim = [w \in Wheel |-> 0]
    /\ enc = [w \in Wheel |-> Encoder_init]
    /\ mot = [w \in Wheel |-> set_duty(L6206_init, 0)]
    /\ motor = [w \in Wheel |-> motor_init]
    /\ \E c \in 0..MaxCode : turn_q = [w \in Wheel |-> <<c>>]
    /\ Sensor = sensor_init
    /\ Switches = switch_init
    /\ late = [t \in Tasks |-> 0]
    /\ rr = 0
    /\ swPut = [w \in Wheel |-> 0]
    /\ halted = FALSE
    /\ stat = 0
    /\ gh = NoGh
    /\ imu = NoIMU
    /\ pid = NoPID
    /\ ev = NoEv

SpecDrive == InitDrive /\ [][Next]_vars

(* -------------------- scripted-turn specification ---------------------- *)
\* the reverse duty is commanded in the reversing phase of wheel w
Reversing(w) ==
    motor[w].state = 13 /\ motor[w].back = 1 /\ mot[w].duty = -3

\* the counter values of wheel w when a turning wheel moves under the
\* reverse duty only, one tick back between two samples
CounterTurn(w) ==
    IF w \in turning /\ Reversing(w) THEN {(tim[w] - 1) % AR1}
    ELSE {tim[w]}

RunMotorTurn(w) == Ran(w) /\ \E c \in CounterTurn(w) : mot_gen(w, c)

NextTurn ==
    \/ RunSwitch
    \/ \E w \in Wheel : RunMotorTurn(w)
    \/ RunSensor
    \/ Tick

\* The state after the module body of main.py has run, the turning wheel
\* having been moved since its timer started: its counter shows any value.
InitTurn ==
    /\ AR = MaxAR
    /\ turning \in {{w} : w \in Wheel}
    /\ tim \in {t \in [Wheel -> 0..AR] : \A w \in Wheel \ turning : t[w] = 0}
    /\ enc = [w \in Wheel |-> Encoder_init]
    /\ mot = [w \in Wheel |-> set_duty(L6206_init, 0)]
    /\ motor = [w \in Wheel |-> motor_init]
    /\ turn_q = [w \in Wheel |-> <<>>]
    /\ Sensor = sensor_init
    /\ Switches = switch_init
    /\ late = [t \in Tasks |-> 0]
    /\ rr = 0
    /\ swPut = [w \in Wheel |-> 0]
    /\ halted = FALSE
    /\ stat = 0
    /\ gh = NoGh
    /\ imu = NoIMU
    /\ pid = NoPID
    /\ ev = NoEv

\* the loop of main.py calls pri_sched for ever
SpecTurn == InitTurn /\ [][NextTurn]_vars /\ WF_vars(NextTurn)

(* --------------------- classifier specification ------------------------ *)
\* The classifier called on its own, while both queues have room, with
\* every combination of readings below, at and above the threshold.
Sensor_cycle ==
    /\ \A w \in Wheel : ~full(turn_q[w])
    /\ \E r \in ReadSet : sen_gen(r)
    /\ UNCHANGED <<late, rr>>

InitAtRest ==
    /\ AR = MaxAR
    /\ turning = {}
    /\ tim = [w \in Wheel |-> 0]
    /\ enc = [w \in Wheel |-> Encoder_init]
    /\ mot = [w \in Wheel |-> set_duty(L6206_init, 0)]
    /\ motor = [w \in Wheel |-> motor_init]
    /\ turn_q = [w \in Wheel |-> <<>>]
    /\ Sensor = sensor_init
    /\ Switches = switch_init
    /\ late = [t \in Tasks |-> 0]
    /\ rr = 0
    /\ swPut = [w \in Wheel |-> 0]
    /\ halted = FALSE
    /\ stat = 0
    /\ gh = NoGh
    /\ imu = NoIMU
    /\ pid = NoPID
    /\ ev = NoEv

NextSen == Sensor_cycle

SpecSen == InitAtRest /\ [][NextSen]_vars

(* ------------------- button interrupt specification -------------------- *)
\* motor_toggle(mot_R, mot_L, status) applied to the two drivers m.  Its
\* last statement, stat = status, binds a name local to the function (there
\* is no global statement inside it), so the module's stat is not assigned.
motor_toggle(m, status) ==
    IF status = 1 THEN [w \in Wheel |-> disable(m[w])]
    ELSE [w \in Wheel |-> enable(m[w])]

\* the handler of the falling edge of the blue button:
\* lambda p: motor_toggle(mot_R, mot_L, (0 if stat==1 else 1))
button_int ==
    /\ gh.presses < MaxPress
    /\ mot' = motor_toggle(mot, IF stat = 1 THEN 0 ELSE 1)
    /\ stat' = stat
    /\ gh' = [gh EXCEPT !.presses = @ + 1]
    /\ ev' = [NoEv EXCEPT !.task = "button",
                          !.arg = <<IF stat = 1 THEN 0 ELSE 1>>]
    /\ UNCHANGED <<compVars, AR, turning, tim, enc, motor, turn_q, Sensor,
                   Switches, late, rr, swPut, halted>>

\* the tasks with both wheels at rest, interrupted by the button between
\* any two steps
NextButton == Next \/ button_int

SpecButton == InitAtRest /\ [][NextButton]_vars

(* ---------------------- encoder specification -------------------------- *)
\* bound on the accumulated position that lets every pair of consecutive
\* counter samples occur
MaxEncPos == MaxEncAR + 1

\* the counter of wheel w's timer after the wheel has moved by d ticks: the
\* hardware counts modulo AR + 1
Counted(w, d) == (tim[w] + d) % AR1

\* Encoder.update() of wheel w's encoder, called on its own, the wheel
\* having moved by d ticks (less than a full turn of the counter) since the
\* last sample
Encoder_update(w) ==
    \E d \in -AR..AR :
        LET c == Counted(w, d)
            e == update(enc[w], c)
        IN  /\ abs(e.position) <= MaxEncPos
            /\ abs(gh.travel[w] + d) <= MaxEncPos
            /\ tim' = [tim EXCEPT ![w] = c]
            /\ enc' = [enc EXCEPT ![w] = e]
            /\ gh' = [gh EXCEPT !.travel[w] = @ + d,
                                !.dsum[w] = @ + get_delta(e),
                                !.origin[w] = IF 2 * abs(d) < AR1 THEN @
                                              ELSE "alias"]
            /\ ev' = [NoEv EXCEPT !.task = "update",
                                  !.raw = c - enc[w].old_count, !.disp = d]
            /\ UNCHANGED <<compVars, stat, AR, turning, mot, motor, turn_q, Sensor,
                           Switches, late, rr, swPut, halted>>

\* Encoder.zero() of wheel w's encoder, called on its own
Encoder_zero(w) ==
    /\ enc' = [enc EXCEPT ![w] = zero(enc[w])]
    /\ gh' = [gh EXCEPT !.travel[w] = 0, !.dsum[w] = 0, !.origin[w] = "zero"]
    /\ ev' = [NoEv EXCEPT !.task = "zero"]
    /\ UNCHANGED <<compVars, stat, AR, turning, tim, mot, motor, turn_q, Sensor,
                   Switches, late, rr, swPut, halted>>

InitEnc ==
    /\ AR \in 1..MaxEncAR
    /\ turning = {"R"}
    /\ tim = [w \in Wheel |-> 0]
    /\ enc = [w \in Wheel |-> Encoder_init]
    /\ mot = [w \in Wheel |-> set_duty(L6206_init, 0)]
    /\ motor = [w \in Wheel |-> motor_init]
    /\ turn_q = [w \in Wheel |-> <<>>]
    /\ Sensor = sensor_init
    /\ Switches = switch_init
    /\ late = [t \in Tasks |-> 0]
    /\ rr = 0
    /\ swPut = [w \in Wheel |-> 0]
    /\ halted = FALSE
    /\ stat = 0
    /\ gh = NoGh
    /\ imu = NoIMU
    /\ pid = NoPID
    /\ ev = NoEv

NextEnc ==
    \/ Encoder_update("R")
    \/ Encoder_zero("R")

SpecEnc == InitEnc /\ [][NextEnc]_vars

(* --------------------- ClosedLoop specification ------------------------ *)
\* largest gain and largest reference or measurement of the specification
MaxGain == 1

MaxRef == 1

\* bound on the integral term, in thousandths
MaxIntegral == 30

\* ClosedLoop(period, Kp, Ki, ref, meas): period is given in ms and kept as
\* period/1000; integral and the output L are held here in thousandths, so
\* that period counts as the ms value.  proportional and L exist only after
\* the first update().
ClosedLoop_init(period_ms, Kp, Ki, ref, meas) ==
    [Kp |-> Kp, Ki |-> Ki, meas |-> meas, ref |-> ref, error |-> 0,
     integral |-> 0, period |-> period_ms]

set_Kp(p, Kp) == [p EXCEPT !.Kp = Kp]

set_Ki(p, Ki) == [p EXCEPT !.Ki = Ki]

setpoint(p, ref) == [p EXCEPT !.ref = ref]

\* variant: the output is the proportional term alone
ClosedLoop_update_ponly(p) ==
    LET error == p.ref - p.meas
        proportional == 1000 * p.Kp * error
        integral == p.integral + p.Ki * error * p.period
    IN  [Kp |-> p.Kp, Ki |-> p.Ki, meas |-> p.meas, ref |-> p.ref,
         error |-> error, integral |-> integral, period |-> p.period,
         proportional |-> proportional, L |-> proportional]

\* ClosedLoop.update(); the value returned is the field L
ClosedLoop_update(p) ==
    LET error == p.ref - p.meas
        proportional == 1000 * p.Kp * error
        integral == p.integral + p.Ki * error * p.period
    IN  [Kp |-> p.Kp, Ki |-> p.Ki, meas |-> p.meas, ref |-> p.ref,
         error |-> error, integral |-> integral, period |-> p.period,
         proportional |-> proportional, L |-> proportional + integral]

\* the variables of the drive loop, which the ClosedLoop and BNO055
\* specifications leave alone
loopVars == <<AR, turning, tim, enc, mot, motor, turn_q, Sensor, Switches,
              late, rr, swPut, halted, stat>>

PID_set_Kp ==
    \E k \in 0..MaxGain :
        /\ pid' = set_Kp(pid, k)
        /\ ev' = [NoEv EXCEPT !.task = "set_Kp"]
        /\ UNCHANGED <<loopVars, gh, imu>>

PID_set_Ki ==
    \E k \in 0..MaxGain :
        /\ pid' = set_Ki(pid, k)
        /\ ev' = [NoEv EXCEPT !.task = "set_Ki"]
        /\ UNCHANGED <<loopVars, gh, imu>>

PID_setpoint ==
    \E r \in -MaxRef..MaxRef :
        /\ pid' = setpoint(pid, r)
        /\ ev' = [NoEv EXCEPT !.task = "setpoint"]
        /\ UNCHANGED <<loopVars, gh, imu>>

PID_update ==
    LET p == ClosedLoop_update(pid)
    IN  /\ abs(p.integral) <= MaxIntegral
        /\ pid' = p
        /\ gh' = [gh EXCEPT !.acc = @ + pid.Ki * (pid.ref - pid.meas) * pid.period]
        /\ ev' = [NoEv EXCEPT !.task = "pid.update", !.ret = <<p.L>>]
        /\ UNCHANGED <<loopVars, imu>>

InitPID ==
    /\ AR = MaxAR
    /\ turning = {}
    /\ tim = [w \in Wheel |-> 0]
    /\ enc = [w \in Wheel |-> Encoder_init]
    /\ mot = [w \in Wheel |-> set_duty(L6206_init, 0)]
    /\ motor = [w \in Wheel |-> motor_init]
    /\ turn_q = [w \in Wheel |-> <<>>]
    /\ Sensor = sensor_init
    /\ Switches = switch_init
    /\ late = [t \in Tasks |-> 0]
    /\ rr = 0
    /\ swPut = [w \in Wheel |-> 0]
    /\ halted = FALSE
    /\ stat = 0
    /\ gh = NoGh
    /\ imu = NoIMU
    /\ \E per \in {m_per, s_per}, kp, ki \in 0..MaxGain,
          r, m \in -MaxRef..MaxRef :
             pid = ClosedLoop_init(per, kp, ki, r, m)
    /\ ev = NoEv

NextPID ==
    \/ PID_set_Kp
    \/ PID_set_Ki
    \/ PID_setpoint
    \/ PID_update

SpecPID == InitPID /\ [][NextPID]_vars

(* ------------------------------ BNO055 --------------------------------- *)
\* number of bytes of the calibration block in the model (22 in
\* BNO055.py:126, 147)
CalLen == 2

\* a byte on the bus or in a register is the pair of its two hexadecimal
\* digits; the calibration block is offered the values 0x00 and 0x8F
Bytes == {<<0, 0>>, <<8, 15>>}

\* struct format "B": a byte read as an unsigned integer, an integer of
\* 0..255 written as a byte; bytes([v]) and bytearray([v]) build the same byte
unpack_B(b) == 16 * b[1] + b[2]

pack_B(v) == <<v \div 16, v % 16>>

\* struct.unpack("<22B", data) and struct.pack("<22B", *values)
unpack(data) == [i \in 1..Len(data) |-> unpack_B(data[i])]

\* variant: the bytes are packed in the opposite order
pack_reversed(values) ==
    [i \in 1..Len(values) |-> pack_B(values[Len(values) + 1 - i])]

pack(values) == [i \in 1..Len(values) |-> pack_B(values[i])]

\* struct format "<h": two bytes, least significant first, read as a signed
\* 16-bit integer
unpack_h(lsb, msb) ==
    LET u == unpack_B(lsb) + 256 * unpack_B(msb)
    IN  IF u >= 32768 THEN u - 65536 ELSE u

\* register addresses
OPR_MODE == 61
CALIB_STAT == 53
ACC_OFF_X_LSB == 85
EULER == 26
GYRO == 20
AXIS_MAP_CONFIG == 65
AXIS_MAP_SIGN == 66

\* the mode byte __init__ writes
CONFIG == 0

\* the constants AXIS_REMAP_P0..P7 and AXIS_REMAP_SIGN_P0..P7 of __init__
AXIS_REMAP(p) ==
    CASE p = 0 -> 33 [] p = 1 -> 36 [] p = 2 -> 36 [] p = 3 -> 33
      [] p = 4 -> 36 [] p = 5 -> 33 [] p = 6 -> 33 [] p = 7 -> 36

AXIS_REMAP_SIGN(p) ==
    CASE p = 0 -> 4 [] p = 1 -> 0 [] p = 2 -> 6 [] p = 3 -> 2
      [] p = 4 -> 3 [] p = 5 -> 1 [] p = 6 -> 7 [] p = 7 -> 5

\* one transaction of the register bus
BusWrite(reg, data) == [rw |-> "w", reg |-> reg, data |-> data]

BusRead(reg, n) == [rw |-> "r", reg |-> reg, data |-> n]

\* result of a driver call: the object and its sensor afterwards, the bus
\* transactions issued (the last one is the failed one when the bus raised),
\* how the call ended, the value returned and the lines printed
Call(i, bus, res, ret, diag) ==
    [i |-> i, bus |-> bus, res |-> res, ret |-> ret, diag |-> diag]

\* The sensor's registers as plain memory: mode and cal hold the bytes last
\* written to 0x3D and to 0x55.. (the axis registers 0x41 and 0x42 are read
\* by no operation and are not kept); file is the sequence of numbers the
\* literals of the calibration file denote, or <<>> when there is no file.
\* __init__ ends with set_operation_mode(0x00).
BNO055_init(cal, file) ==
    [mode |-> pack_B(CONFIG), cal |-> cal, file |-> file]

\* In the calls below fail is the number of the bus transaction of the call
\* that raises OSError, 0 when none does.

\* set_operation_mode(mode)
set_operation_mode(i, mode, fail) ==
    LET bus == <<BusWrite(OPR_MODE, <<pack_B(mode)>>)>>
    IN  IF fail = 1 THEN Call(i, bus, "OSError", <<>>, <<>>)
        ELSE Call([i EXCEPT !.mode = pack_B(mode)], bus, "ok", <<>>, <<>>)

\* reset(): self.write_byte is defined nowhere in the class
reset(i) == Call(i, <<>>, "AttributeError", <<>>, <<>>)

\* get_calibration_status() when register 0x35 holds the byte b
get_calibration_status(i, b, fail) ==
    LET bus == <<BusRead(CALIB_STAT, 1)>>
        v   == unpack_B(b)
    IN  IF fail = 1 THEN Call(i, bus, "OSError", <<>>, <<>>)
        ELSE Call(i, bus, "ok",
                  <<(v \div 64) % 4, (v \div 16) % 4, (v \div 4) % 4, v % 4>>,
                  <<>>)

\* read_calibration_coefficients()
read_calibration_coefficients(i, fail) ==
    LET bus == <<BusRead(ACC_OFF_X_LSB, CalLen)>>
    IN  IF fail = 1 THEN Call(i, bus, "OSError", <<>>, <<>>)
        ELSE Call(i, bus, "ok", unpack(i.cal), <<>>)

\* write_calibration_coefficients(coefficients), the coefficients being
\* CalLen integers of 0..255
write_calibration_coefficients(i, coefficients, fail) ==
    LET packed_data == pack(coefficients)
        bus == <<BusWrite(ACC_OFF_X_LSB, packed_data)>>
    IN  IF fail = 1 THEN Call(i, bus, "OSError", <<>>, <<>>)
        ELSE Call([i EXCEPT !.cal = packed_data], bus, "ok", <<>>, <<>>)

\* read_euler_angles() and read_angular_velocity() when the six registers
\* hold the bytes d: three "<h" values, returned in sixteenths
read_euler_angles(i, d, fail) ==
    LET bus == <<BusRead(EULER, 6)>>
    IN  IF fail = 1 THEN Call(i, bus, "OSError", <<>>, <<>>)
        ELSE Call(i, bus, "ok",
                  [roll |-> unpack_h(d[3], d[4]), pitch |-> unpack_h(d[5], d[6]),
                   yaw |-> unpack_h(d[1], d[2])], <<>>)

read_angular_velocity(i, d, fail) ==
    LET bus == <<BusRead(GYRO, 6)>>
    IN  IF fail = 1 THEN Call(i, bus, "OSError", <<>>, <<>>)
        ELSE Call(i, bus, "ok",
                  [roll_rate |-> unpack_h(d[1], d[2]),
                   pitch_rate |-> unpack_h(d[3], d[4]),
                   yaw_rate |-> unpack_h(d[5], d[6])], <<>>)

\* load_coefficients(): open() raises OSError when there is no file; the
\* except clause covers the whole body, the write to the sensor included
load_coefficients(i, fail) ==
    IF i.file = <<>>
    THEN Call(i, <<>>, "ok", <<>>, <<"No calibration file found.">>)
    ELSE LET w == write_calibration_coefficients(i, i.file, fail)
         IN  IF w.res = "OSError"
             THEN Call(w.i, w.bus, "ok", <<>>,
                       <<"Calibration Coefficients:", "No calibration file found.">>)
             ELSE Call(w.i, w.bus, w.res, <<>>, <<"Calibration Coefficients:">>)

\* save_coefficients()
save_coefficients(i, fail) ==
    LET r == read_calibration_coefficients(i, fail)
    IN  IF r.res # "ok" THEN r
        ELSE Call([i EXCEPT !.file = r.ret], r.bus, "ok", <<>>,
                  <<"Calibration data saved to file.">>)

\* the (remap, sign) literals of the branches of remap_axes
Placement(p) ==
    CASE p = 0 -> <<33, 4>> [] p = 1 -> <<36, 0>> [] p = 2 -> <<36, 6>>
      [] p = 3 -> <<33, 2>> [] p = 4 -> <<36, 3>> [] p = 5 -> <<33, 1>>
      [] p = 6 -> <<33, 7>> [] p = 7 -> <<36, 5>>

\* variant: the sign byte goes to 0x41 and the remap byte to 0x42
remap_axes_swapped(i, placement, fail) ==
    IF placement \notin 0..7
    THEN Call(i, <<>>, "ValueError", <<>>, <<>>)
    ELSE LET remap == pack_B(Placement(placement)[1])
             sign  == pack_B(Placement(placement)[2])
             w1 == BusWrite(AXIS_MAP_CONFIG, <<sign>>)
             w2 == BusWrite(AXIS_MAP_SIGN, <<remap>>)
         IN  IF fail = 1 THEN Call(i, <<w1>>, "OSError", <<>>, <<>>)
             ELSE IF fail = 2
             THEN Call(i, <<w1, w2>>, "OSError", <<>>, <<>>)
             ELSE Call(i, <<w1, w2>>, "ok", <<>>, <<>>)

\* remap_axes(placement)
remap_axes(i, placement, fail) ==
    IF placement \notin 0..7
    THEN Call(i, <<>>, "ValueError", <<>>, <<>>)
    ELSE LET remap == pack_B(Placement(placement)[1])
             sign  == pack_B(Placement(placement)[2])
             w1 == BusWrite(AXIS_MAP_CONFIG, <<remap>>)
             w2 == BusWrite(AXIS_MAP_SIGN, <<sign>>)
         IN  IF fail = 1 THEN Call(i, <<w1>>, "OSError", <<>>, <<>>)
             ELSE IF fail = 2
             THEN Call(i, <<w1, w2>>, "OSError", <<>>, <<>>)
             ELSE Call(i, <<w1, w2>>, "ok", <<>>, <<>>)

\* write_calibration_coefficients(read_calibration_coefficients())
rewrite_coefficients(i, fail) ==
    LET r == read_calibration_coefficients(i, fail)
    IN  IF r.res # "ok" THEN r
        ELSE LET w == write_calibration_coefficients(i, r.ret,
                                                    IF fail = 2 THEN 1 ELSE 0)
             IN  Call(w.i, r.bus \o w.bus, w.res, r.ret, <<>>)

(* ----------------------- BNO055 specification -------------------------- *)
\* the contents of the calibration block and of the calibration file
Blocks == [1..CalLen -> Bytes]

\* the numbers offered as coefficients: 0x00 and 0x8F
Coeffs == {0, 143}

Files == {<<>>} \cup [1..CalLen -> Coeffs]

\* the mode arguments: CONFIG and NDOF (0x0C)
ModeArgs == {CONFIG, 12}

\* the bytes the six data registers hold at a read: all 0x00 or all 0xFF
\* within a value, so each "<h" value is 0 or -1
DataRegs == { <<a, a, b, b, c, c>> : a \in {<<0, 0>>, <<15, 15>>},
                                     b \in {<<0, 0>>}, c \in {<<0, 0>>, <<15, 15>>} }

\* a call c of operation op with arguments arg, in which transaction fail
\* of the bus raised (0: none)
IMU_call(op, arg, c, fail) ==
    /\ imu' = c.i
    /\ ev' = [NoEv EXCEPT !.task = op, !.arg = arg, !.bus = c.bus,
                          !.fault = IF fail <= Len(c.bus) THEN fail ELSE 0,
                          !.res = c.res, !.ret = c.ret, !.diag = c.diag]
    /\ UNCHANGED <<loopVars, gh, pid>>

IMU_set_operation_mode ==
    \E m \in ModeArgs, fail \in 0..1 :
        IMU_call("set_operation_mode", <<m>>, set_operation_mode(imu, m, fail), fail)

IMU_reset == IMU_call("reset", <<>>, reset(imu), 0)

IMU_get_calibration_status ==
    \E b \in Bytes, fail \in 0..1 :
        IMU_call("get_calibration_status", <<>>,
                 get_calibration_status(imu, b, fail), fail)

IMU_read_calibration_coefficients ==
    \E fail \in 0..1 :
        IMU_call("read_calibration_coefficients", <<>>,
                 read_calibration_coefficients(imu, fail), fail)

IMU_write_calibration_coefficients ==
    \E k \in [1..CalLen -> Coeffs], fail \in 0..1 :
        IMU_call("write_calibration_coefficients", k,
                 write_calibration_coefficients(imu, k, fail), fail)

IMU_read_euler_angles ==
    \E d \in DataRegs, fail \in 0..1 :
        IMU_call("read_euler_angles", <<>>, read_euler_angles(imu, d, fail), fail)

IMU_read_angular_velocity ==
    \E d \in DataRegs, fail \in 0..1 :
        IMU_call("read_angular_velocity", <<>>,
                 read_angular_velocity(imu, d, fail), fail)

IMU_load_coefficients ==
    \E fail \in 0..1 :
        IMU_call("load_coefficients", <<>>, load_coefficients(imu, fail), fail)

IMU_save_coefficients ==
    \E fail \in 0..1 :
        IMU_call("save_coefficients", <<>>, save_coefficients(imu, fail), fail)

IMU_remap_axes ==
    \E p \in -1..8, fail \in 0..2 :
        IMU_call("remap_axes", <<p>>, remap_axes(imu, p, fail), fail)

IMU_rewrite_coefficients ==
    \E fail \in 0..2 :
        IMU_call("rewrite_coefficients", <<>>, rewrite_coefficients(imu, fail), fail)

\* the state after BNO055(i2c) has returned, for any content of the
\* calibration block and of the file
InitIMU ==
    /\ AR = MaxAR
    /\ turning = {}
    /\ tim = [w \in Wheel |-> 0]
    /\ enc = [w \in Wheel |-> Encoder_init]
    /\ mot = [w \in Wheel |-> set_duty(L6206_init, 0)]
    /\ motor = [w \in Wheel |-> motor_init]
    /\ turn_q = [w \in Wheel |-> <<>>]
    /\ Sensor = sensor_init
    /\ Switches = switch_init
    /\ late = [t \in Tasks |-> 0]
    /\ rr = 0
    /\ swPut = [w \in Wheel |-> 0]
    /\ halted = FALSE
    /\ stat = 0
    /\ gh = NoGh
    /\ \E cal \in Blocks, file \in Files : imu = BNO055_init(cal, file)
    /\ pid = NoPID
    /\ ev = NoEv

NextIMU ==
    \/ IMU_set_operation_mode
    \/ IMU_reset
    \/ IMU_get_calibration_status
    \/ IMU_read_calibration_coefficients
    \/ IMU_write_calibration_coefficients
    \/ IMU_read_euler_angles
    \/ IMU_read_angular_velocity
    \/ IMU_load_coefficients
    \/ IMU_save_coefficients
    \/ IMU_remap_axes
    \/ IMU_rewrite_coefficients

SpecIMU == InitIMU /\ [][NextIMU]_vars

(* ------------------------------ claims --------------------------------- *)
\* the duty a wheel commands for code 1
Code1Duty(w) == IF w = "R" THEN v_ref + adjust1 ELSE v_ref - adjust1

\* C1: a drive task that is idle with code 1 at the head of its queue takes
\* the code off the queue without commanding a duty and goes to state 1; in
\* state 1 it commands exactly one duty, v_ref + adjust1 on the right wheel
\* and v_ref - adjust1 on the left wheel, and ends that cycle in state 0;
\* state 1 is entered in no other way.
C1_Code1OneDuty ==
    [][\A w \in Wheel : ev'.task = w =>
          /\ (motor[w].state = 0 /\ any(turn_q[w]) /\ Head(turn_q[w]) = 1)
                => /\ motor'[w].state = 1
                   /\ turn_q'[w] = Tail(turn_q[w])
                   /\ ev'.cmds = <<>>
          /\ motor[w].state = 1
                => /\ ev'.cmds = <<Code1Duty(w)>>
                   /\ mot'[w].duty = Code1Duty(w)
                   /\ motor'[w].state = 0
          /\ motor'[w].state = 1
                => /\ motor[w].state = 0
                   /\ any(turn_q[w]) /\ Head(turn_q[w]) = 1]_vars

C1_Witness ==
    /\ ev.task = "R" /\ ev.pstate = 1
    /\ ev.cmds = <<v_ref + adjust1>>
    /\ motor["R"].state = 0

\* the puts of the last cycle are one put of code c on the left queue
\* followed by one put of code c on the right queue
PutBoth(c) ==
    /\ Len(ev.puts) = 2
    /\ ev.puts[1].q = "L" /\ ev.puts[1].v = c
    /\ ev.puts[2].q = "R" /\ ev.puts[2].v = c

\* the reading with the outermost-left and the next channel above the
\* threshold, the sensors being mounted left to right S11, S9, S7, S5, S3, S1
OuterLeftPair == Line({"S11", "S9"})

\* C2 as stated: a classifier cycle that reads the two outermost-left
\* channels above the threshold and the other four below it puts code 6 on
\* both queues, once each.
C2_AsStated == (ev.task = "Sen" /\ ev.reads = OuterLeftPair) => PutBoth(6)

\* C2: a classifier cycle that reads the two outermost-left channels above
\* the threshold and the other four below it calls put with code 8 on the
\* left queue and on the right queue, once each.
C2_OuterLeftPairCode8 == (ev.task = "Sen" /\ ev.reads = OuterLeftPair) => PutBoth(8)

C2_Witness ==
    /\ ev.task = "Sen" /\ ev.reads = OuterLeftPair
    /\ turn_q["L"] = <<8>> /\ turn_q["R"] = <<8>>

\* C3: the monitor leaves state 0 only for state 1 and only in a cycle that
\* read a switch asserted, and such a cycle always does; the cycle begun in
\* state 1 puts code 13 once on the left and once on the right queue and
\* ends in state 2; state 2 is never left and makes no put; so the number
\* of puts the monitor has made on each queue is 0 before state 2 and 1 in
\* state 2.
C3_SwitchLatch ==
    [][/\ (Switches.state = 0 /\ Switches'.state # 0)
            => /\ Switches'.state = 1 /\ ev'.task = "swi"
               /\ (ev'.sw[1] = 1 \/ ev'.sw[2] = 1)
       /\ (ev'.task = "swi" /\ Switches.state = 0
                /\ (ev'.sw[1] = 1 \/ ev'.sw[2] = 1))
            => Switches'.state = 1
       /\ (ev'.task = "swi" /\ Switches.state = 1)
            => /\ Switches'.state = 2
               /\ Len(ev'.puts) = 2
               /\ ev'.puts[1].q = "L" /\ ev'.puts[1].v = 13
               /\ ev'.puts[2].q = "R" /\ ev'.puts[2].v = 13
       /\ (ev'.task = "swi" /\ Switches.state # 1) => ev'.puts = <<>>
       /\ Switches.state = 1 => Switches'.state \in {1, 2}
       /\ Switches.state = 2 => Switches'.state = 2
       /\ \A w \in Wheel :
            swPut'[w] = IF Switches'.state = 2 THEN 1 ELSE 0]_vars

C3_Witness ==
    /\ ev.task = "swi" /\ ev.pstate = 2
    /\ Switches.state = 2
    /\ swPut = [w \in Wheel |-> 1]

\* C4 as stated: every cycle of a drive task makes exactly one set_duty
\* call.
C4_OneDutyPerCycle == \A w \in Wheel : ev.task = w => Len(ev.cmds) = 1

\* C5: every classifier cycle makes exactly two put calls, the first on the
\* left queue and the second on the right queue, both with the same code.
C5_SameCodeBothQueues ==
    ev.task = "Sen" => \E c \in 1..13 : PutBoth(c)

C5_Witness ==
    /\ ev.task = "Sen"
    /\ PutBoth(1)

\* C6 as stated: a classifier cycle that begins with the left or the right
\* queue at capacity prints a queue-full diagnostic.
C6_FullIsReported ==
    (ev.task = "Sen" /\ (ev.qfull["L"] \/ ev.qfull["R"]))
        => \E i \in DOMAIN ev.diag :
              ev.diag[i] \in {"RIGHT QUEUE FULL", "LEFT QUEUE FULL"}

\* C7 as stated: no producer cycle calls put on a queue that is full.
C7_NoPutWhenFull ==
    ev.task \in {"Sen", "swi"} => \A i \in DOMAIN ev.puts : ~ev.puts[i].full

\* the documented ranking: switch monitor first, classifier next, the two
\* drive tasks last and equal
DocumentedRanking ==
    /\ priority["swi"] > priority["Sen"]
    /\ priority["Sen"] > priority["R"]
    /\ priority["R"] = priority["L"]

\* C8 as stated: the priorities have the documented ranking, and no drive
\* task is stepped while the classifier is ready at the same instant.
C8_ClassifierBeforeDrive ==
    [][/\ DocumentedRanking
       /\ \A w \in Wheel : (ready("Sen") /\ ready(w)) => ev'.task # w]_vars

\* C9 as stated: delta lies in the half-open interval (-AR/2, +AR/2].
C9_HalfOpenRange ==
    \A w \in Wheel : -AR < 2 * enc[w].delta /\ 2 * enc[w].delta <= AR

\* C9: after every update(), delta lies in the closed interval
\* [-(AR+1)/2, +(AR+1)/2].
C9_ClosedRange ==
    \A w \in Wheel : -AR1 <= 2 * enc[w].delta /\ 2 * enc[w].delta <= AR1

C9_Witness ==
    /\ ev.task = "update"
    /\ 2 * enc["R"].delta = AR1

\* C10: an update() whose raw difference is limit + 1 yields
\* delta = limit + 1 - (AR + 1); a raw difference of exactly limit or exactly
\* -limit is left as it is; a raw difference of -limit - 1 yields
\* delta = -limit - 1 + (AR + 1).
C10_Boundary ==
    ev.task = "update" =>
        /\ 2 * ev.raw = AR1 + 2  => enc["R"].delta = ev.raw - AR1
        /\ 2 * ev.raw = AR1      => enc["R"].delta = ev.raw
        /\ 2 * ev.raw = -AR1     => enc["R"].delta = ev.raw
        /\ 2 * ev.raw = -AR1 - 2 => enc["R"].delta = ev.raw + AR1

C10_Witness ==
    /\ ev.task = "update"
    /\ 2 * ev.raw = AR1 + 2
    /\ enc["R"].delta = ev.raw - AR1

\* C11: after zero(), whatever number of update() calls follows, the position
\* equals the net signed travel of the counter since the zero() call (each
\* sample being less than half a turn of the counter from the one before);
\* in particular the position stays 0 when the counter has not moved.
C11_ZeroIsOrigin ==
    \A w \in Wheel :
        gh.origin[w] = "zero" => get_position(enc[w]) = gh.travel[w]

\* C12: after zero() and N >= 0 update() calls, the position is the sum of
\* the N wraparound-corrected deltas those calls produced, for even and for
\* odd auto-reload values.
C12_PositionIsDeltaSum ==
    \A w \in Wheel : get_position(enc[w]) = gh.dsum[w]

\* zero() has been called, a later update() corrected a wrap, and the
\* position holds more than the last delta
C12_Witness ==
    /\ gh.origin["R"] # "new"
    /\ ev.task = "update" /\ ev.raw # get_delta(enc["R"])
    /\ get_position(enc["R"]) # get_delta(enc["R"])
    /\ get_position(enc["R"]) # 0
    /\ get_position(enc["R"]) = gh.dsum["R"]

\* the turn codes and the five adjustment magnitudes
TurnCodes == {1, 2} \cup 4..11

Adjusts == {adjust1, adjust2, adjust3, adjust4, adjust5}

\* C13 as stated: for every turn code the commanded duty is v_ref plus or
\* minus one of the five adjustments and nothing else, and for the same code
\* (left duty - v_ref) = -(right duty - v_ref).
C13_AsStated ==
    /\ \A w \in Wheel : (ev.task = w /\ ev.pstate \in TurnCodes) =>
          /\ Len(ev.cmds) = 1
          /\ abs(ev.cmds[1] - v_ref) \in Adjusts
    /\ (gh.last["L"] = gh.last["R"] /\ gh.last["L"] \in TurnCodes) =>
          mot["L"].duty - v_ref = -(mot["R"].duty - v_ref)

\* what the right wheel adds to its duty for the codes 8..11
RightTrim(w, s) == IF w = "R" /\ s \in 8..11 THEN offset ELSE 0

\* C13: for every turn code the commanded duty is v_ref plus or minus one
\* of the five adjustments, plus the offset 3 on the right wheel for the
\* codes 8..11, and nothing else; for the same code the two wheels use
\* opposite signs of the same adjustment.
C13_OppositeAdjustments ==
    /\ \A w \in Wheel : (ev.task = w /\ ev.pstate \in TurnCodes) =>
          /\ Len(ev.cmds) = 1
          /\ abs(ev.cmds[1] - RightTrim(w, ev.pstate) - v_ref) \in Adjusts
    /\ (gh.last["L"] = gh.last["R"] /\ gh.last["L"] \in TurnCodes) =>
          mot["L"].duty - v_ref
            = -(mot["R"].duty - RightTrim("R", gh.last["R"]) - v_ref)

\* both wheels have commanded their duty for code 11, a code the classifier
\* never puts
C13_Witness ==
    /\ gh.last["L"] = 11 /\ gh.last["R"] = 11
    /\ ev.task = "L" /\ ev.pstate = 11
    /\ mot["L"].duty = v_ref + adjust5
    /\ mot["R"].duty = v_ref - adjust5 + offset

C20_ReverseUntilTravelled ==
    \A w \in Wheel : (ev.task = w /\ ev.pstate = 13 /\ ev.diag = <<"SECOND">>) =>
        /\ ev.cmds \in {<<-3>>, <<0>>}
        /\ ev.cmds = <<0>> => abs(gh.moved[w]) >= TurnTicks

RemapWrites(p) ==
    << BusWrite(AXIS_MAP_CONFIG, <<pack_B(AXIS_REMAP(p))>>),
       BusWrite(AXIS_MAP_SIGN, <<pack_B(AXIS_REMAP_SIGN(p))>>) >>

\* C14: remap_axes(p) with p in 0..7 issues exactly two register writes, the
\* remap byte of p to register 0x41 and then the sign byte of p to register
\* 0x42 (the writes up to the failed one when the bus raises); with any
\* other p it fails with ValueError and issues no bus write.
C14_RemapAxes ==
    ev.task = "remap_axes" =>
        IF ev.arg[1] \in 0..7
        THEN /\ ev.fault = 0 => ev.res = "ok" /\ ev.bus = RemapWrites(ev.arg[1])
             /\ ev.fault # 0 => ev.bus = SubSeq(RemapWrites(ev.arg[1]), 1, ev.fault)
        ELSE ev.res = "ValueError" /\ ev.bus = <<>>

\* remap_axes(7) has written 0x24 to 0x41 and 0x05 to 0x42
C14_Witness ==
    /\ ev.task = "remap_axes" /\ ev.arg = <<7>> /\ ev.fault = 0
    /\ ev.bus = << BusWrite(65, << <<2, 4>> >>), BusWrite(66, << <<0, 5>> >>) >>

\* C15: in every driver operation, a bus error raised by one of its register
\* transactions reaches the caller as that error.
C15_BusErrorsPropagate ==
    ev.fault # 0 => ev.res = "OSError"

\* the last call wrote to the calibration offset registers
WroteOffsets ==
    \E k \in 1..Len(ev.bus) :
        ev.bus[k].rw = "w" /\ ev.bus[k].reg = ACC_OFF_X_LSB

\* C16: over any sequence of driver operations, every write to the
\* calibration offset registers (by write_calibration_coefficients, called
\* directly or by load_coefficients) happens while the last mode written to
\* the mode register is CONFIG.
C16_OffsetsWrittenInConfig ==
    WroteOffsets => imu.mode = pack_B(CONFIG)

\* C17: write_calibration_coefficients(read_calibration_coefficients()),
\* when the bus raises no error, writes the block back and leaves it
\* unchanged, so that a following read returns the same values in the same
\* order.
C17_RoundTrip ==
    [][(ev'.task = "rewrite_coefficients" /\ ev'.fault = 0) =>
          /\ ev'.bus = <<BusRead(ACC_OFF_X_LSB, CalLen),
                         BusWrite(ACC_OFF_X_LSB, imu.cal)>>
          /\ imu'.cal = imu.cal
          /\ read_calibration_coefficients(imu', 0).ret = ev'.ret]_vars

\* a block whose first two bytes differ has been read and written back
C17_Witness ==
    /\ ev.task = "rewrite_coefficients" /\ ev.fault = 0 /\ ev.res = "ok"
    /\ imu.cal[1] # imu.cal[2]
    /\ ev.ret = unpack(imu.cal)

\* C21: a drive task of a turning wheel that has entered state 13 returns
\* to state 0, the wheel moving while the reverse duty is commanded; after
\* the cycle that stops the wheel the task is in state 13 for at most one
\* more cycle (none once count has reached the limit of 1000), which ends in
\* state 0.
C21_TurnTerminates ==
    /\ \A w \in Wheel :
          (w \in turning /\ motor[w].state = 13) ~> (motor[w].state = 0)
    /\ [][\A w \in Wheel :
            (ev'.task = w /\ motor[w].state = 13 /\ motor[w].back = 0
               /\ motor[w].turn = 1)
                => (ev'.diag = <<"DONE">> /\ motor'[w].state = 0)]_vars
    /\ [][\A w \in Wheel :
            (ev'.task = w /\ ev'.pstate = 13 /\ ev'.cmds = <<0>>)
                => motor'[w].state = (IF motor[w].count < CountLimit THEN 13 ELSE 0)]_vars

\* the turning wheel has ended its scripted turn
C21_Witness ==
    \E w \in turning :
        /\ ev.task = w /\ ev.pstate = 13 /\ ev.diag = <<"DONE">>
        /\ motor[w].state = 0 /\ motor[w].count = 1

\* C22: for every auto-reload value, when the wheel has moved by d ticks with
\* |d| < (AR+1)/2 between two consecutive counter samples, update() sets
\* delta to d, also when the counter wrapped past 0 or AR in between; and as
\* long as zero() has not been called the position is congruent to the
\* counter modulo AR+1.
C22_UnwrapExact ==
    /\ [][(ev'.task = "update" /\ enc["R"].old_count = tim["R"]
              /\ 2 * abs(ev'.disp) < AR1)
                => get_delta(enc'["R"]) = ev'.disp]_vars
    /\ [](\A w \in Wheel :
            gh.origin[w] = "new" => get_position(enc[w]) % AR1 = tim[w])

\* the counter has wrapped between two samples less than half a turn apart,
\* the position has left the counter's range, and zero() was never called
C22_Witness ==
    /\ ev.task = "update" /\ gh.origin["R"] = "new"
    /\ ev.raw # ev.disp /\ 2 * abs(ev.disp) < AR1
    /\ get_delta(enc["R"]) = ev.disp
    /\ get_position(enc["R"]) < 0
    /\ get_position(enc["R"]) % AR1 = tim["R"]

\* C23 as stated: a cycle of a drive task that begins in one of the states
\* 1..12 leaves the state of its encoder unchanged.
C23_AsStated ==
    [][\A w \in Wheel :
          (ev'.task = w /\ ev'.pstate \in 1..12) => enc'[w] = enc[w]]_vars

\* C23: a drive task samples its encoder with update() at the start of every
\* cycle, whatever its state; in the states 0..12 and in the last phase of
\* state 13 that sample is the only change of the encoder, in the first and
\* the reversing phase of state 13 the encoder is zeroed and sampled again;
\* the steps of the other tasks leave both encoders unchanged.
C23_SampledEveryCycle ==
    [][\A w \in Wheel :
          IF ev'.task = w
          THEN IF ev'.pstate = 13 /\ ev'.diag # <<"DONE">>
               THEN enc'[w] = update(zero(enc[w]), tim'[w])
               ELSE enc'[w] = update(enc[w], tim'[w])
          ELSE enc'[w] = enc[w]]_vars

\* a cycle in one of the states 1..12 has sampled a counter that had moved
C23_Witness ==
    \E w \in turning :
        /\ ev.task = w /\ ev.pstate \in 1..12
        /\ get_delta(enc[w]) # 0 /\ get_position(enc[w]) # 0

\* C24: every duty a drive task passes to set_duty, for either wheel, in
\* every state and whatever codes came before, lies in -100..100; so do the
\* duty the driver holds and the pulse width it sets.
C24_DutyRange ==
    /\ \A i \in 1..Len(ev.cmds) : ev.cmds[i] \in -100..100
    /\ \A w \in Wheel : mot[w].duty \in -100..100 /\ mot[w].PWM \in 0..100

\* the right wheel has been commanded the largest duty, v_ref + adjust3, and
\* the left wheel the smallest one of the single-shot states
C24_Witness ==
    /\ ev.task \in Wheel /\ ev.cmds # <<>>
    /\ mot["R"].duty = 100 /\ mot["R"].PWM = 100
    /\ mot["L"].duty = v_ref - adjust3 /\ mot["L"].IN2 = 1

\* C25 as stated: every code a producer offers to the queue of a wheel is
\* appended to it (none is lost), and a queue that holds a code is later
\* read by the cycle of its drive task that takes a code in state 0 (none
\* stays pending for ever), the cycles of state 13 included.
C25_OfferedIsDequeued ==
    /\ [][\A i \in DOMAIN ev'.puts :
            LET w == ev'.puts[i].q
            IN  turn_q'[w] = Append(turn_q[w], ev'.puts[i].v)]_vars
    /\ \A w \in Wheel :
          any(turn_q[w])
              ~> (ev.task = w /\ ev.pstate = 0 /\ ev.cmds = <<>>)

\* the codes the decision table yields over all combinations of readings
Enqueued == { decide(r).l : r \in ReadSet } \cup { decide(r).r : r \in ReadSet }

\* C26 as stated: each of the ten turn codes is put on the queues by the
\* decision table for at least one combination of the six readings, so that
\* a cycle of the classifier can enqueue it.
C26_EveryRuleFires ==
    ev.task = "Sen" => \A c \in TurnCodes : c \in Enqueued

\* C27 as stated: reset() issues one register write, the one that carries
\* the reset command, and returns to its caller without raising.
C27_ResetWritesOnce ==
    ev.task = "reset" =>
        /\ ev.res = "ok"
        /\ Len(ev.bus) = 1
        /\ ev.bus[1].rw = "w" /\ ev.bus[1].reg = OPR_MODE

\* C28: with the classifier and the switch monitor as the only producers,
\* the queues hold codes of 1..13 only and the state of each drive task is in
\* 0..13 in every reachable state, so no drive task raises Invalid State.
C28_DriveStateInRange ==
    \A w \in Wheel :
        /\ motor[w].state \in 0..13
        /\ \A i \in DOMAIN turn_q[w] : turn_q[w][i] \in 1..13
        /\ ev.task = w => ev.diag # <<"Invalid State">>
        /\ ~halted

\* a drive task has taken the code of the switch monitor off its queue and
\* the other one has acted on a turn code of the classifier
C28_Witness ==
    \E w \in Wheel, v \in Wheel :
        /\ v # w
        /\ ev.task = w /\ ev.pstate = 0 /\ motor[w].state = 13
        /\ swPut[w] = 1
        /\ gh.last[v] \in TurnCodes

\* the three phase flags of the drive task m are clear
FlagsClear(m) == m.back = 0 /\ m.turn = 0 /\ m.forw = 0

\* C29 as stated: a cycle of state 13 that finds the three flags clear zeroes
\* the encoder and begins the reversing phase; and when a scripted turn has
\* finished (the cycle that prints DONE and returns to state 0) the three
\* flags are clear again, as a later code 13 needs them.
C29_FlagsClearAfterTurn ==
    /\ [][\A w \in Wheel :
            (ev'.task = w /\ ev'.pstate = 13 /\ FlagsClear(motor[w]))
                => /\ ev'.diag = <<"FIRST">>
                   /\ enc'[w] = update(zero(enc[w]), tim'[w])
                   /\ motor'[w].state = 13 /\ motor'[w].back = 1]_vars
    /\ [](\A w \in Wheel :
            (ev.task = w /\ ev.diag = <<"DONE">>)
                => (motor[w].state = 0 /\ FlagsClear(motor[w])))

\* C30 as stated: the motors are enabled at start-up, and the k-th press of
\* the button leaves both motors disabled when k is odd and enabled when k
\* is even.
C30_PressesAlternate ==
    \A w \in Wheel : mot[w].EN = (IF gh.presses % 2 = 1 THEN 0 ELSE 1)

====
